---- MODULE Spec2Model ----
(***************************************************************************)
(* Model of activation_functions_from_scratch.py: eight activation classes *)
(* (Sigmoid, Softmax, TanH, ReLU, LeakyReLU, ELU, SELU, SoftPlus), each    *)
(* with a forward call (__call__) and a gradient method over numpy arrays. *)
(*                                                                         *)
(* Numbers.  A float is modelled as an extended rational <<n, d>> in       *)
(* lowest terms: d > 0 is the finite value n/d, <<1,0>> is +inf, <<-1,0>>  *)
(* is -inf and <<0,0>> is NaN, with the IEEE-754 rules for inf and NaN     *)
(* (inf - inf, 0 * inf, 0/0 and inf/inf are NaN; x/0 is inf; x/inf is 0).  *)
(* Arithmetic on finite values is exact; the rounding of the last bit of a *)
(* float64 and the sign of zero are not modelled.  exp and log1p are       *)
(* tables of their values rounded to two decimals, with float64's overflow *)
(* of exp to inf (from 710 up) and underflow to 0 (from -746 down).        *)
(*                                                                         *)
(* Arrays.  An ndarray is [shape, data] with data in row-major order; a    *)
(* Python scalar or 0-d array has shape <<>> and one element.  A raised    *)
(* exception is the value [exc |-> "TypeError"].                           *)
(***************************************************************************)
EXTENDS Integers, Sequences, FiniteSets, TLC

VARIABLES
  leaky,   \* the LeakyReLU instance: [alpha]
  elu,     \* the ELU instance: [alpha]
  selu,    \* the SELU instance: [alpha, scale]
  ctor,    \* the constructor arguments and the instances as constructed
  x, y,    \* the two operand arrays the caller holds
  x0, y0,  \* their values when the caller created them
  op,      \* the method called last, "none" before the first call
  argx,    \* the values of x and of y passed to that call
  argy,
  retx,    \* what the call on x and the call on y returned or raised
  rety,
  memo     \* <<>> or one remembered forward call <<[m, a, r, n]>>: method,
           \* operand, result, and how many calls followed it (2: two or more)

vars == <<leaky, elu, selu, ctor, x, y, x0, y0, op, argx, argy, retx, rety, memo>>

(***************************************************************************)
(* Bounds of the model                                                     *)
(***************************************************************************)
\* longest 1-D operand
MaxLen == 2
\* largest number of elements of a 2-D operand (rows * columns)
MaxElems == 3

(***************************************************************************)
(* float64 arithmetic                                                      *)
(***************************************************************************)
Abs(n) == IF n < 0 THEN -n ELSE n

RECURSIVE GCD(_, _)
GCD(a, b) == IF b = 0 THEN a ELSE GCD(b, a % b)

Sign(n) == IF n > 0 THEN 1 ELSE IF n < 0 THEN -1 ELSE 0

\* the extended rational n/d in lowest terms with d >= 0
Norm(n, d) ==
  IF d = 0 THEN <<Sign(n), 0>>
  ELSE LET s == IF d < 0 THEN -1 ELSE 1
           g == GCD(Abs(n), Abs(d))
       IN <<(s * n) \div g, (s * d) \div g>>

Inf == <<1, 0>>
NInf == <<-1, 0>>
NaN == <<0, 0>>
Zero == <<0, 1>>
One == <<1, 1>>
Two == <<2, 1>>
Int2Num(i) == <<i, 1>>

IsFinite(a) == a[2] # 0
IsNaN(a) == a = NaN

Neg(a) == <<-a[1], a[2]>>

Add(a, b) ==
  IF IsNaN(a) \/ IsNaN(b) THEN NaN
  ELSE IF ~IsFinite(a) /\ ~IsFinite(b) THEN (IF a = b THEN a ELSE NaN)
  ELSE IF ~IsFinite(a) THEN a
  ELSE IF ~IsFinite(b) THEN b
  ELSE Norm(a[1] * b[2] + b[1] * a[2], a[2] * b[2])

Sub(a, b) == Add(a, Neg(b))

Mul(a, b) == Norm(a[1] * b[1], a[2] * b[2])

Recip(a) == IF a[1] < 0 THEN <<-a[2], -a[1]>> ELSE <<a[2], a[1]>>

Div(a, b) == Mul(a, Recip(b))

\* a >= b as the float comparison: false when either side is NaN
Ge(a, b) ==
  /\ ~IsNaN(a) /\ ~IsNaN(b)
  /\ \/ a = b
     \/ a = Inf
     \/ b = NInf
     \/ IsFinite(a) /\ IsFinite(b) /\ a[1] * b[2] >= b[1] * a[2]

\* np.exp on one element: the argument is an integer in the model
Exp(a) ==
  IF IsNaN(a) THEN NaN
  ELSE IF a = Inf THEN Inf
  ELSE IF a = NInf THEN Zero
  ELSE IF a[1] >= 710 THEN Inf
  ELSE IF a[1] <= -746 THEN Zero
  ELSE CASE a[1] = -2 -> Norm(14, 100)
         [] a[1] = -1 -> Norm(37, 100)
         [] a[1] = 0  -> One
         [] a[1] = 1  -> Norm(272, 100)
         [] a[1] = 2  -> Norm(739, 100)

\* np.log1p on one element, at the values exp takes
Log1p(a) ==
  IF IsNaN(a) THEN NaN
  ELSE IF a = Inf THEN Inf
  ELSE IF a = Zero THEN Zero
  ELSE CASE a = Norm(14, 100)  -> Norm(13, 100)
         [] a = Norm(37, 100)  -> Norm(31, 100)
         [] a = One            -> Norm(69, 100)
         [] a = Norm(272, 100) -> Norm(131, 100)
         [] a = Norm(739, 100) -> Norm(213, 100)

(***************************************************************************)
(* numpy arrays and the Python/numpy primitives the code uses              *)
(***************************************************************************)
TypeError == [exc |-> "TypeError"]
IsExc(v) == "exc" \in DOMAIN v
IsArray(v) == "shape" \in DOMAIN v

RECURSIVE Prod(_)
Prod(s) == IF s = <<>> THEN 1 ELSE Head(s) * Prod(Tail(s))

Size(a) == Len(a.data)

\* a Python scalar (or 0-d array)
Scalar(v) == [shape |-> <<>>, data |-> <<v>>]

\* numpy broadcasting, for the shapes that meet in the code: equal shapes,
\* a scalar against anything, and a (c,) vector against an (r, c) matrix
BShape(a, b) ==
  IF a.shape = b.shape THEN a.shape
  ELSE IF a.shape = <<>> THEN b.shape
  ELSE IF b.shape = <<>> THEN a.shape
  ELSE IF Len(a.shape) = 2 THEN a.shape ELSE b.shape

\* element i (row-major) of a broadcast to shape s
At(a, s, i) ==
  IF a.shape = s THEN a.data[i]
  ELSE IF a.shape = <<>> THEN a.data[1]
  ELSE a.data[((i - 1) % s[2]) + 1]

\* np.power(v, 2) on one element
Square(v) == Mul(v, v)

\* the binary operator named f on two elements
Apply2(f, u, v) ==
  CASE f = "+" -> Add(u, v)
    [] f = "-" -> Sub(u, v)
    [] f = "*" -> Mul(u, v)
    [] f = "/" -> Div(u, v)

\* the unary ufunc or operator named f on one element
Apply1(f, v) ==
  CASE f = "exp"   -> Exp(v)
    [] f = "log1p" -> Log1p(v)
    [] f = "neg"   -> Neg(v)
    [] f = "sq"    -> Square(v)

\* the binary operator f applied to a and b with broadcasting; an exception
\* raised while evaluating an operand propagates
BinOp(f, a, b) ==
  IF IsExc(a) THEN a
  ELSE IF IsExc(b) THEN b
  ELSE LET s == BShape(a, b)
       IN [shape |-> s,
           data |-> [i \in 1..Prod(s) |-> Apply2(f, At(a, s, i), At(b, s, i))]]

\* the unary ufunc f applied to every element of a
UnOp(f, a) ==
  IF IsExc(a) THEN a
  ELSE [shape |-> a.shape, data |-> [i \in 1..Size(a) |-> Apply1(f, a.data[i])]]

np_exp(a) == UnOp("exp", a)
np_log1p(a) == UnOp("log1p", a)
np_neg(a) == UnOp("neg", a)
np_add(a, b) == BinOp("+", a, b)
np_sub(a, b) == BinOp("-", a, b)
np_mul(a, b) == BinOp("*", a, b)
np_div(a, b) == BinOp("/", a, b)
np_power2(a) == UnOp("sq", a)

\* x >= 0 followed by np.where(x >= 0, a, b)
Select(c, a, b) == IF Ge(c, Zero) THEN a ELSE b
np_where_ge0(c, a, b) ==
  IF IsExc(a) THEN a
  ELSE IF IsExc(b) THEN b
  ELSE [shape |-> c.shape,
        data |-> [i \in 1..Size(c) |->
                    Select(c.data[i], At(a, c.shape, i), At(b, c.shape, i))]]

\* acc + d[i] + d[i + step] + ..., added left to right
RECURSIVE SumFrom(_, _, _, _)
SumFrom(d, i, step, acc) ==
  IF i > Len(d) THEN acc ELSE SumFrom(d, i + step, step, Add(acc, d[i]))

\* variant: np.sum(a), the total of all the elements whatever the shape
np_sum(a) ==
  IF IsExc(a) THEN a
  ELSE Scalar(SumFrom(a.data, 1, 1, Zero))

\* the builtin sum(a): it iterates over the first axis of a, so a 0-d value
\* is not iterable, a 1-D array gives the scalar total (0 for an empty one)
\* and a 2-D array gives the vector of its column totals
py_sum(a) ==
  IF IsExc(a) THEN a
  ELSE IF a.shape = <<>> THEN TypeError
  ELSE IF Len(a.shape) = 1 THEN Scalar(SumFrom(a.data, 1, 1, Zero))
  ELSE [shape |-> <<a.shape[2]>>,
        data |-> [j \in 1..a.shape[2] |-> SumFrom(a.data, j, a.shape[2], Zero)]]

\* (np.exp) ** a: the base is the ufunc object itself, not a number; raising
\* it to each element is an unsupported operand type, and only an array with
\* no element at all gets through
ufunc_pow(a) ==
  IF IsExc(a) THEN a
  ELSE IF Size(a) = 0 THEN a
  ELSE TypeError

(***************************************************************************)
(* The eight classes.  A method returns [ret, x] or [ret, x, self]: the    *)
(* value returned (or the exception raised), the operand array as the call *)
(* leaves it, and the instance as the call leaves it.                      *)
(***************************************************************************)
\* variant: np.exp(x) / (1 + sum(np.exp(x)))
Sigmoid_call_summed(a) ==
  [ret |-> np_div(np_exp(a), np_add(Scalar(One), py_sum(np_exp(a)))),
   x |-> a]

Sigmoid_call(a) ==
  [ret |-> np_div(Scalar(One), np_add(Scalar(One), np_exp(np_neg(a)))),
   x |-> a]

Sigmoid_gradient(a) ==
  [ret |-> np_mul(Sigmoid_call(a).ret, np_sub(Scalar(One), Sigmoid_call(a).ret)),
   x |-> a]

Softmax_call(a) ==
  [ret |-> np_div(np_exp(a), py_sum(np_exp(a))),
   x |-> a]

Softmax_gradient(a) ==
  LET p == Softmax_call(a).ret
  IN [ret |-> np_mul(p, np_sub(Scalar(One), p)),
      x |-> a]

TanH_call(a) ==
  [ret |-> np_sub(np_div(Scalar(Two),
                         np_add(Scalar(One), np_exp(np_mul(Scalar(Neg(Two)), a)))),
                  Scalar(One)),
   x |-> a]

TanH_gradient(a) ==
  [ret |-> np_sub(Scalar(One), np_power2(TanH_call(a).ret)),
   x |-> a]

\* variant: x[x < 0] = 0; return x
ReLU_call_inplace(a) ==
  [ret |-> np_where_ge0(a, a, Scalar(Zero)),
   x |-> np_where_ge0(a, a, Scalar(Zero))]

ReLU_call(a) ==
  [ret |-> np_where_ge0(a, a, Scalar(Zero)),
   x |-> a]

\* variant: np.where(x > 0, 1, 0)
ReLU_gradient_strict(a) ==
  [ret |-> [shape |-> a.shape,
            data |-> [i \in 1..Size(a) |-> IF a.data[i][1] > 0 THEN One ELSE Zero]],
   x |-> a]

ReLU_gradient(a) ==
  [ret |-> np_where_ge0(a, Scalar(One), Scalar(Zero)),
   x |-> a]

\* args is the tuple of constructor arguments: <<>> or <<alpha>>
\* variant: the argument is dropped, self.alpha = 0.2
LeakyReLU_init_fixed(args) ==
  [alpha |-> Norm(2, 10)]

LeakyReLU_init(args) ==
  [alpha |-> IF args = <<>> THEN Norm(2, 10) ELSE args[1]]

LeakyReLU_call(self, a) ==
  [ret |-> np_where_ge0(a, a, np_mul(Scalar(self.alpha), a)),
   x |-> a,
   self |-> self]

\* variant: the method leaves the slope it returned for x >= 0 in self.alpha
LeakyReLU_gradient_store(self, a) ==
  [ret |-> np_where_ge0(a, Scalar(One), Scalar(self.alpha)),
   x |-> a,
   self |-> [alpha |-> One]]

LeakyReLU_gradient(self, a) ==
  [ret |-> np_where_ge0(a, Scalar(One), Scalar(self.alpha)),
   x |-> a,
   self |-> self]

ELU_init(args) ==
  [alpha |-> IF args = <<>> THEN Norm(1, 10) ELSE args[1]]

ELU_call(self, a) ==
  [ret |-> np_where_ge0(a, a,
             np_mul(Scalar(self.alpha), np_sub(np_exp(a), Scalar(One)))),
   x |-> a,
   self |-> self]

\* variant: np.where(x >= 0.0, 1, self.__call__(x))
ELU_gradient_noalpha(self, a) ==
  [ret |-> np_where_ge0(a, Scalar(One), ELU_call(self, a).ret),
   x |-> a,
   self |-> self]

ELU_gradient(self, a) ==
  [ret |-> np_where_ge0(a, Scalar(One),
             np_add(ELU_call(self, a).ret, Scalar(self.alpha))),
   x |-> a,
   self |-> self]

\* the two constants, cut to three decimals
SELU_init ==
  [alpha |-> Norm(1673, 1000), scale |-> Norm(1051, 1000)]

SELU_call(self, a) ==
  [ret |-> np_mul(Scalar(self.scale),
             np_where_ge0(a, a,
               np_mul(Scalar(self.alpha), np_sub(np_exp(a), Scalar(One))))),
   x |-> a,
   self |-> self]

SELU_gradient(self, a) ==
  [ret |-> np_mul(Scalar(self.scale),
             np_where_ge0(a, Scalar(One),
               np_mul(Scalar(self.alpha), np_exp(a)))),
   x |-> a,
   self |-> self]

SoftPlus_call(a) ==
  [ret |-> np_log1p(np_exp(a)),
   x |-> a]

SoftPlus_gradient(a) ==
  [ret |-> np_div(Scalar(One), np_add(Scalar(One), ufunc_pow(np_neg(a)))),
   x |-> a]

(***************************************************************************)
(* The state machine.  The instances are constructed and the caller's two  *)
(* operands are drawn in Init; a step calls one method on x and then on y  *)
(* (an exception raised by a call is caught and recorded as its result).   *)
(***************************************************************************)
Nums(V) == {Int2Num(v) : v \in V}

\* operand values: ordinary ones and the two where exp underflows and overflows
Vals == {-746, -1, 0, 1, 746}
SmallVals == {-1, 0, 1}

ArraysOf(s, V) == {[shape |-> s, data |-> d] : d \in [1..Prod(s) -> Nums(V)]}

Shapes1D == {<<n>> : n \in 0..MaxLen}
Shapes2D == {s \in (1..MaxElems) \X (1..MaxElems) : s[1] * s[2] <= MaxElems}

\* the operands by kind: 1-D arrays, 2-D arrays, 0-d values
OperandKinds ==
  << UNION {ArraysOf(s, Vals) : s \in Shapes1D},
     UNION {ArraysOf(s, SmallVals) : s \in Shapes2D},
     ArraysOf(<<>>, Vals) >>

\* constructor argument tuples for LeakyReLU and ELU: none, or one alpha
CtorArgs == {<<>>, <<Norm(1, 2)>>}

NoRet == [none |-> TRUE]

Construct(la, ea) ==
  /\ leaky = LeakyReLU_init(la)
  /\ elu = ELU_init(ea)
  /\ selu = SELU_init
  /\ ctor = [leaky_args |-> la, elu_args |-> ea,
             leaky |-> LeakyReLU_init(la), elu |-> ELU_init(ea), selu |-> SELU_init]

Hold(a, b) ==
  /\ x = a /\ x0 = a
  /\ y = b /\ y0 = b
  /\ op = "none"
  /\ argx = a /\ argy = b
  /\ retx = NoRet /\ rety = NoRet
  /\ memo = <<>>

Init ==
  \E k \in DOMAIN OperandKinds :
    \E la \in CtorArgs, ea \in CtorArgs, a \in OperandKinds[k] :
      Construct(la, ea) /\ Hold(a, a)

\* the bookkeeping of a step that called method m: rx and ry are what the
\* call on x and the call on y gave
Returned(m, rx, ry) ==
  /\ op' = m
  /\ argx' = x /\ argy' = y
  /\ retx' = rx.ret /\ rety' = ry.ret
  /\ x' = rx.x /\ y' = ry.x
  /\ memo' = IF memo = <<>> THEN memo
             ELSE <<[memo[1] EXCEPT !.n = IF @ < 2 THEN @ + 1 ELSE @]>>
  /\ UNCHANGED <<ctor, x0, y0>>

Sigmoid_apply ==
  /\ Returned("Sigmoid.__call__", Sigmoid_call(x), Sigmoid_call(y))
  /\ UNCHANGED <<leaky, elu, selu>>

Sigmoid_grad ==
  /\ Returned("Sigmoid.gradient", Sigmoid_gradient(x), Sigmoid_gradient(y))
  /\ UNCHANGED <<leaky, elu, selu>>

Softmax_apply ==
  /\ Returned("Softmax.__call__", Softmax_call(x), Softmax_call(y))
  /\ UNCHANGED <<leaky, elu, selu>>

Softmax_grad ==
  /\ Returned("Softmax.gradient", Softmax_gradient(x), Softmax_gradient(y))
  /\ UNCHANGED <<leaky, elu, selu>>

TanH_apply ==
  /\ Returned("TanH.__call__", TanH_call(x), TanH_call(y))
  /\ UNCHANGED <<leaky, elu, selu>>

TanH_grad ==
  /\ Returned("TanH.gradient", TanH_gradient(x), TanH_gradient(y))
  /\ UNCHANGED <<leaky, elu, selu>>

ReLU_apply ==
  /\ Returned("ReLU.__call__", ReLU_call(x), ReLU_call(y))
  /\ UNCHANGED <<leaky, elu, selu>>

ReLU_grad ==
  /\ Returned("ReLU.gradient", ReLU_gradient(x), ReLU_gradient(y))
  /\ UNCHANGED <<leaky, elu, selu>>

LeakyReLU_apply ==
  LET rx == LeakyReLU_call(leaky, x)
      ry == LeakyReLU_call(rx.self, y)
  IN /\ Returned("LeakyReLU.__call__", rx, ry)
     /\ leaky' = ry.self
     /\ UNCHANGED <<elu, selu>>

LeakyReLU_grad ==
  LET rx == LeakyReLU_gradient(leaky, x)
      ry == LeakyReLU_gradient(rx.self, y)
  IN /\ Returned("LeakyReLU.gradient", rx, ry)
     /\ leaky' = ry.self
     /\ UNCHANGED <<elu, selu>>

ELU_apply ==
  LET rx == ELU_call(elu, x)
      ry == ELU_call(rx.self, y)
  IN /\ Returned("ELU.__call__", rx, ry)
     /\ elu' = ry.self
     /\ UNCHANGED <<leaky, selu>>

ELU_grad ==
  LET rx == ELU_gradient(elu, x)
      ry == ELU_gradient(rx.self, y)
  IN /\ Returned("ELU.gradient", rx, ry)
     /\ elu' = ry.self
     /\ UNCHANGED <<leaky, selu>>

SELU_apply ==
  LET rx == SELU_call(selu, x)
      ry == SELU_call(rx.self, y)
  IN /\ Returned("SELU.__call__", rx, ry)
     /\ selu' = ry.self
     /\ UNCHANGED <<leaky, elu>>

SELU_grad ==
  LET rx == SELU_gradient(selu, x)
      ry == SELU_gradient(rx.self, y)
  IN /\ Returned("SELU.gradient", rx, ry)
     /\ selu' = ry.self
     /\ UNCHANGED <<leaky, elu>>

SoftPlus_apply ==
  /\ Returned("SoftPlus.__call__", SoftPlus_call(x), SoftPlus_call(y))
  /\ UNCHANGED <<leaky, elu, selu>>

SoftPlus_grad ==
  /\ Returned("SoftPlus.gradient", SoftPlus_gradient(x), SoftPlus_gradient(y))
  /\ UNCHANGED <<leaky, elu, selu>>

Next ==
  \/ Sigmoid_apply
  \/ Sigmoid_grad
  \/ Softmax_apply
  \/ Softmax_grad
  \/ TanH_apply
  \/ TanH_grad
  \/ ReLU_apply
  \/ ReLU_grad
  \/ LeakyReLU_apply
  \/ LeakyReLU_grad
  \/ ELU_apply
  \/ ELU_grad
  \/ SELU_apply
  \/ SELU_grad
  \/ SoftPlus_apply
  \/ SoftPlus_grad

Spec == Init /\ [][Next]_vars

(***************************************************************************)
(* Two further starting points over smaller operand sets.  SpecPair holds  *)
(* two operands of one shape; SpecTwice holds a probe x and another input  *)
(* y, and may remember one forward call on x to compare later ones with.   *)
(***************************************************************************)
PairVals == {-1, 1}

PairShapes ==
  {<<>>} \cup {<<n>> : n \in 0..MaxLen}
         \cup {<<1, n>> : n \in 1..MaxLen} \cup {<<n, 1>> : n \in 1..MaxLen}

InitPair ==
  \E la \in CtorArgs, ea \in CtorArgs, s \in PairShapes :
    \E a \in ArraysOf(s, PairVals), b \in ArraysOf(s, PairVals) :
      Construct(la, ea) /\ Hold(a, b)

SpecPair == InitPair /\ [][Next]_vars

ForwardOps ==
  {"Sigmoid.__call__", "Softmax.__call__", "TanH.__call__", "ReLU.__call__",
   "LeakyReLU.__call__", "ELU.__call__", "SELU.__call__", "SoftPlus.__call__"}

InitTwice ==
  \E la \in CtorArgs, ea \in CtorArgs, s \in {<<>>} \cup {<<n>> : n \in 0..MaxLen} :
    \E a \in ArraysOf(s, PairVals), b \in ArraysOf(<<1>>, PairVals) :
      Construct(la, ea) /\ Hold(a, b)

\* the caller keeps the result of the forward call on x it has just made
Remember ==
  /\ op \in ForwardOps
  /\ memo = <<>>
  /\ memo' = <<[m |-> op, a |-> argx, r |-> retx, n |-> 0]>>
  /\ UNCHANGED <<leaky, elu, selu, ctor, x, y, x0, y0, op, argx, argy, retx, rety>>

NextTwice == Next \/ Remember

SpecTwice == InitTwice /\ [][NextTwice]_vars

(***************************************************************************)
(* Properties                                                              *)
(***************************************************************************)
Called == op # "none"

\* the elements of the operand of the last call on x, by position
Elems == 1..Size(argx)

IsNeg(v) == v[1] < 0

\* the values of array r at the positions in I add up to t
RECURSIVE SumOver(_, _)
SumOver(d, I) ==
  IF I = {} THEN Zero
  ELSE LET i == CHOOSE j \in I : TRUE
       IN Add(d[i], SumOver(d, I \ {i}))

\* C1 (as claimed): every forward and gradient call on a finite array
\* returns a result; none raises an exception.
C1_NeverRaises ==
  Called => ~IsExc(retx) /\ ~IsExc(rety)

\* C2 (as claimed): SoftPlus.gradient(x) returns 1 / (1 + exp(-x)), the value
\* of Sigmoid's forward call on x.
C2_SoftPlusGradientIsSigmoid ==
  op = "SoftPlus.gradient" => retx = Sigmoid_call(argx).ret

\* C3: ReLU's forward call gives x where x >= 0 and 0 where x < 0, its
\* gradient gives 1 where x >= 0 and 0 elsewhere; zero is on the x >= 0 side.
C3_ReLU ==
  /\ op = "ReLU.__call__" =>
       /\ IsArray(retx) /\ retx.shape = argx.shape
       /\ \A i \in Elems :
            retx.data[i] = IF IsNeg(argx.data[i]) THEN Zero ELSE argx.data[i]
  /\ op = "ReLU.gradient" =>
       /\ IsArray(retx) /\ retx.shape = argx.shape
       /\ \A i \in Elems :
            retx.data[i] = IF IsNeg(argx.data[i]) THEN Zero ELSE One

C3_Witness ==
  /\ op = "ReLU.gradient"
  /\ \E i \in Elems : argx.data[i] = Zero /\ retx.data[i] = One
  /\ \E i \in Elems : IsNeg(argx.data[i]) /\ retx.data[i] = Zero

\* the alpha a LeakyReLU or ELU was constructed with
GivenAlpha(args, default) == IF args = <<>> THEN default ELSE args[1]

\* C4: LeakyReLU's forward call gives x where x >= 0 and alpha * x where
\* x < 0, its gradient gives 1 where x >= 0 and alpha where x < 0, with the
\* alpha given at construction, 0.2 when none was given.
C4_LeakyReLU ==
  LET alpha == GivenAlpha(ctor.leaky_args, <<1, 5>>)
  IN /\ op = "LeakyReLU.__call__" =>
          /\ IsArray(retx) /\ retx.shape = argx.shape
          /\ \A i \in Elems :
               retx.data[i] = IF IsNeg(argx.data[i])
                              THEN Mul(alpha, argx.data[i]) ELSE argx.data[i]
     /\ op = "LeakyReLU.gradient" =>
          /\ IsArray(retx) /\ retx.shape = argx.shape
          /\ \A i \in Elems :
               retx.data[i] = IF IsNeg(argx.data[i]) THEN alpha ELSE One

C4_Witness ==
  /\ op = "LeakyReLU.__call__"
  /\ ctor.leaky_args = <<<<1, 2>>>>
  /\ \E i \in Elems : argx.data[i] = <<-1, 1>> /\ retx.data[i] = <<-1, 2>>
  /\ \E i \in Elems : argx.data[i] = Zero /\ retx.data[i] = Zero

\* the positions of the 1-D slices along the first axis of an array of shape
\* s: the whole of a 1-D array, each column of a 2-D one
Slices(s) ==
  IF Len(s) = 1 THEN {1..s[1]}
  ELSE {{(r - 1) * s[2] + c : r \in 1..s[1]} : c \in 1..s[2]}

\* over the positions I the result r is exp(a) / sum(exp(a)), it sums to 1 and
\* a largest input has a largest output
NormalizedOver(a, r, I) ==
  LET total == SumOver([i \in 1..Len(a) |-> Exp(a[i])], I)
  IN /\ \A i \in I : r[i] = Div(Exp(a[i]), total)
     /\ SumOver(r, I) = One
     /\ \A i \in I : (\A j \in I : Ge(a[i], a[j])) => (\A j \in I : Ge(r[i], r[j]))

SumIsFiniteNonZero(a, I) ==
  LET total == SumOver([i \in 1..Len(a) |-> Exp(a[i])], I)
  IN IsFinite(total) /\ total # Zero

C6_NothingMutated ==
  /\ x = x0 /\ y = y0
  /\ leaky = ctor.leaky /\ elu = ctor.elu /\ selu = ctor.selu
  /\ leaky.alpha = GivenAlpha(ctor.leaky_args, <<1, 5>>)
  /\ elu.alpha = GivenAlpha(ctor.elu_args, <<1, 10>>)

C6_Witness ==
  /\ op = "ELU.gradient"
  /\ Size(x0) = MaxLen
  /\ ctor.elu_args # <<>> /\ ctor.leaky_args = <<>>
  /\ IsArray(retx) /\ retx # x

\* C8 (as claimed): every forward and gradient call, Softmax's included,
\* returns an array of the shape of its input.
C8_SameShape ==
  Called =>
    /\ IsArray(retx) /\ retx.shape = argx.shape
    /\ IsArray(rety) /\ rety.shape = argy.shape

\* C10: ELU's forward call gives x where x >= 0 and alpha * (exp(x) - 1)
\* where x < 0, so 0 at 0; its gradient gives 1 where x >= 0 and
\* apply(x) + alpha where x < 0, which is alpha * exp(x); alpha is the one
\* given at construction, 0.1 when none was given.
C10_ELU ==
  LET alpha == GivenAlpha(ctor.elu_args, <<1, 10>>)
      apply(v) == IF IsNeg(v) THEN Mul(alpha, Sub(Exp(v), One)) ELSE v
  IN /\ op = "ELU.__call__" =>
          /\ IsArray(retx) /\ retx.shape = argx.shape
          /\ \A i \in Elems :
               /\ retx.data[i] = apply(argx.data[i])
               /\ argx.data[i] = Zero => retx.data[i] = Zero
     /\ op = "ELU.gradient" =>
          /\ IsArray(retx) /\ retx.shape = argx.shape
          /\ \A i \in Elems :
               IF IsNeg(argx.data[i])
               THEN /\ retx.data[i] = Add(apply(argx.data[i]), alpha)
                    /\ retx.data[i] = Mul(alpha, Exp(argx.data[i]))
               ELSE retx.data[i] = One

C10_Witness ==
  /\ op = "ELU.gradient"
  /\ ctor.elu_args = <<>>
  /\ \E i \in Elems : argx.data[i] = <<-1, 1>> /\ retx.data[i] = <<37, 1000>>
  /\ \E i \in Elems : argx.data[i] = Zero /\ retx.data[i] = One

SoftmaxOps == {"Softmax.__call__", "Softmax.gradient"}

\* two results agree at position i: the same exception, or arrays whose
\* elements at i are equal
AgreeAt(r1, r2, i) ==
  \/ IsExc(r1) /\ r1 = r2
  \/ IsArray(r1) /\ IsArray(r2) /\ r1.data[i] = r2.data[i]

\* C7: a forward call on the same input as a remembered earlier forward call
\* of the same instance gives the same output, whatever was called in between.
C7_SameInputSameOutput ==
  memo # <<>> /\ op = memo[1].m =>
    /\ argx = memo[1].a => retx = memo[1].r
    /\ argy = memo[1].a => rety = memo[1].r

C7_Witness ==
  /\ memo # <<>>
  /\ memo[1].n = 2
  /\ op = memo[1].m /\ op = "LeakyReLU.__call__"
  /\ argx = memo[1].a /\ retx = memo[1].r
  /\ IsArray(retx) /\ retx # argx
  /\ argy # argx

\* C9: for every method other than Softmax's, two operands of one shape that
\* agree at a position give results that agree at that position.
C9_Elementwise ==
  Called /\ op \notin SoftmaxOps /\ argx.shape = argy.shape =>
    \A i \in Elems : argx.data[i] = argy.data[i] => AgreeAt(retx, rety, i)

C9_Witness ==
  /\ op = "TanH.gradient"
  /\ argx.shape = argy.shape
  /\ IsArray(retx) /\ IsArray(rety)
  /\ \E i \in Elems : argx.data[i] = argy.data[i] /\ retx.data[i] = rety.data[i]
  /\ \E i \in Elems : argx.data[i] # argy.data[i]

\* Softmax's output at a position does depend on the other entries
C9_SoftmaxDependsOnOthers ==
  /\ op = "Softmax.__call__"
  /\ argx.shape = argy.shape
  /\ IsArray(retx) /\ IsArray(rety)
  /\ \E i \in Elems : argx.data[i] = argy.data[i] /\ retx.data[i] # rety.data[i]
====
